---- MODULE Spec2Model ----
(***************************************************************************)
(* Region selection overlay of rq (src/src/selection.rs): the LayerState   *)
(* object, its Selection, the Wayland handlers that mutate it and the      *)
(* dispatch loop of wait_for_selection.                                    *)
(***************************************************************************)
EXTENDS Integers, Sequences, FiniteSets, TLC

VARIABLES
    layer,            \* LayerState.layer: the LayerContext list (surface id, region)
    exit,             \* LayerState.exit
    pos_pressed,      \* LayerState.pos_pressed : Option<Pos>
    pos_current,      \* LayerState.pos_current : Pos
    selection,        \* LayerState.selection   : [data : Option<(Pos, Pos)>, on : bool]
    since_last_draw,  \* Instant::now() - LayerState.last_draw, in clock ticks, saturated
    frame_cb,         \* per surface: wl_surface.frame callbacks requested and not yet done
    pc,               \* position of wait_for_selection: "loop", "dispatch", "done"
    pending,          \* callbacks still queued in the running blocking_dispatch call
    frame_left,       \* events still to iterate in the running pointer_frame call
    result,           \* value returned by wait_for_selection: Option<Region> (None = Err)
    g_began,          \* history: Selection::begin has been called
    g_end,            \* history: the first call of Selection::end (state it met, data it left)
    g_drag_done,      \* history: a release has ended an active Selection (a completed drag)
    g_pressed,        \* history: a pointer Press event has been handled
    g_click,          \* history: shape of the pointer event sequence so far, see click_after
    g_esc,            \* history: was the first Escape pressed before ("idle") or after a press
    g_last_ev,        \* history: the raw pointer event handled last
    g_frame_draw,     \* history: per surface, ticks since its last frame-callback draw began
    g_pace,           \* history: see frame_timed
    outputs,          \* output_state.outputs() with the OutputInfo of each: Option<info>
    failure,          \* how the run failed: the Err payload returned or the panic, "" if not
    capture,          \* main: the capture_area requests sent to the capture service
    g_press_pos,      \* history: where the one press of a g_click drag was made
    g_painted,        \* history: what the most recent frame-callback draw painted
    g_wire,           \* history: the requests the most recent draw made, in their order
    g_own,            \* history: per surface, ticks since its own last draw began
    g_shadow,         \* the Selection of the run with the same pointer events and no frame callback
    h_base,           \* Selection method harness: the Selection the calls started from
    h_sel,            \* Selection method harness: the Selection after the calls
    h_seq,            \* Selection method harness: the positions passed to the calls so far
    h_call,           \* Selection method harness: the last call (method, position, Selection met)
    h_ctx,            \* draw harness: the LayerContext drawn
    h_canvas          \* draw harness: the canvas draw uploaded, None before the draw

vars == <<layer, exit, pos_pressed, pos_current, selection, since_last_draw, frame_cb,
          pc, pending, frame_left, result,
          g_began, g_end, g_drag_done, g_pressed, g_click, g_esc, g_last_ev, g_frame_draw, g_pace,
          outputs, failure, capture, g_press_pos, g_painted, g_wire, g_own, g_shadow,
          h_base, h_sel, h_seq, h_call, h_ctx, h_canvas>>

progVars == <<layer, exit, pos_pressed, pos_current, selection, since_last_draw, frame_cb,
              pc, pending, frame_left, result,
              g_began, g_end, g_drag_done, g_pressed, g_click, g_esc, g_last_ev, g_frame_draw, g_pace,
              outputs, failure, capture, g_press_pos, g_painted, g_wire, g_own, g_shadow>>

harnessVars == <<h_base, h_sel, h_seq, h_call, h_ctx, h_canvas>>

runVars == <<outputs, failure, capture>>

obsVars == <<g_press_pos, g_painted>>

drawVars == <<g_wire, g_own>>

----------------------------------------------------------------------------
(* Bounds of the model *)

\* callbacks handled by one blocking_dispatch call
MaxBatch == 2

\* events passed to one pointer_frame call
MaxFrame == 2

\* frame callbacks that may be outstanding for one surface
MaxCallbacks == 1

\* clock ticks per millisecond
TicksPerMs == 2

\* ticks thread::sleep may overrun the requested duration
MaxOversleep == 1

\* update calls applied by the Selection method harness
MaxUpdates == 3

\* side, in pixels, of the outputs the draw harness paints
MaxSide == 2

\* callbacks in one blocking_dispatch call of the replayed session
MaxLongBatch == 3

\* frame callbacks that may be outstanding for one surface when configure events are
\* also handled while a callback is outstanding
MaxPending == 2

----------------------------------------------------------------------------
(* Option<T> *)

None == <<>>

Some(v) == <<v>>

----------------------------------------------------------------------------
(* Pos, Region *)

Pos(x, y) == [x |-> x, y |-> y]

\* #[derive(Default)] for Pos
DefaultPos == Pos(0, 0)

Min(a, b) == IF a <= b THEN a ELSE b

Abs(a) == IF a < 0 THEN -a ELSE a

\* a plausible slip: a rectangle is made of any width and height
from_xywh_unchecked(x, y, w, h) == Some([x |-> x, y |-> y, w |-> w, h |-> h])

\* tiny_skia IntRect::from_xywh as called by to_region: None for a zero width, a zero
\* height, or an extent that leaves the i32 range
from_xywh(x, y, w, h) ==
    LET i32_max == 2147483647
    IN IF w = 0 \/ h = 0 \/ w > i32_max \/ h > i32_max
          \/ x + w > i32_max \/ y + h > i32_max
       THEN None
       ELSE Some([x |-> x, y |-> y, w |-> w, h |-> h])

----------------------------------------------------------------------------
(* Selection *)

\* #[derive(Default)] for Selection
DefaultSelection == [data |-> None, on |-> FALSE]

\* data.get_or_insert(Default::default())
get_or_insert(data) == IF data = None THEN <<DefaultPos, DefaultPos>> ELSE data[1]

set_from(sel, from) ==
    [sel EXCEPT !.data = Some(<<from, get_or_insert(sel.data)[2]>>)]

set_to(sel, to) ==
    [sel EXCEPT !.data = Some(<<get_or_insert(sel.data)[1], to>>)]

has_value(sel) == sel.data # None

reset(sel) == [data |-> None, on |-> FALSE]

\* a plausible slip: begin without the reset, a prior anchor stays
begin_without_reset(sel, pos) ==
    IF sel.data = None
    THEN set_to(set_from([sel EXCEPT !.on = TRUE], pos), pos)
    ELSE set_to([sel EXCEPT !.on = TRUE], pos)

begin(sel, pos) ==
    set_to(set_from([reset(sel) EXCEPT !.on = TRUE], pos), pos)

\* a plausible slip: update drags the anchor along with the cursor
update_moves_anchor(sel, pos) ==
    IF sel.on THEN set_to(set_from(sel, get_or_insert(sel.data)[2]), pos) ELSE sel

\* a plausible slip: the position is not applied
update_skipped(sel, pos) == sel

\* a plausible slip: update without the `if self.on` guard
update_unguarded(sel, pos) == set_to(sel, pos)

update(sel, pos) ==
    IF sel.on THEN set_to(sel, pos) ELSE sel

\* a plausible slip: end clears `on` and forgets set_to
end_keeps_cursor(sel, pos) ==
    IF sel.on THEN [sel EXCEPT !.on = FALSE] ELSE sel

\* a plausible slip: end sets the cursor and leaves `on` as it was
end_leaves_on(sel, pos) ==
    IF sel.on THEN set_to(sel, pos) ELSE sel

\* a plausible slip: end without the `if self.on` guard
end_unguarded(sel, pos) ==
    set_to([sel EXCEPT !.on = FALSE], pos)

end(sel, pos) ==
    IF sel.on THEN set_to([sel EXCEPT !.on = FALSE], pos) ELSE sel

to_region(sel) ==
    IF sel.data = None
    THEN None
    ELSE LET from == sel.data[1][1]
             to == sel.data[1][2]
             x == Min(from.x, to.x)
             y == Min(from.y, to.y)
             w == Abs(from.x - to.x)
             h == Abs(from.y - to.y)
         IN from_xywh(x, y, w, h)

----------------------------------------------------------------------------
(* Outputs, surfaces and the events the compositor sends *)

Surfaces == {1, 2}

\* the LayerContext list built by the init loop: output A at (0,0), output B at (1920,0)
InitLayer ==
    << [surface |-> 1, region |-> [x |-> 0, y |-> 0, w |-> 1920, h |-> 1080],
        pixmap |-> [w |-> 1920, h |-> 1080]],
       [surface |-> 2, region |-> [x |-> 1920, y |-> 0, w |-> 1920, h |-> 1080],
        pixmap |-> [w |-> 1920, h |-> 1080]] >>

\* self.layer.iter().find(|layer| layer.layer.wl_surface().id().eq(&surface.id())):
\* the first context of the list with that surface
find_layer(l, s) ==
    LET hits == SelectSeq(l, LAMBDA ctx : ctx.surface = s)
    IN IF hits = <<>> THEN None ELSE Some(Head(hits))

\* a plausible slip: an unknown surface is given the default region instead of a panic
surface_region_or_default(l, s) ==
    LET found == find_layer(l, s)
    IN IF found = None
       THEN Some([x |-> 0, y |-> 0, w |-> 0, h |-> 0])
       ELSE Some(found[1].region)

\* `.find(..).map(|ctx| ctx.region)` of pointer_frame: None for a surface not in the list
surface_region(l, s) ==
    LET found == find_layer(l, s)
    IN IF found = None THEN None ELSE Some(found[1].region)

\* the OutputInfo the compositor advertised for the two outputs
OutputA == [logical_position |-> Some(<<0, 0>>), logical_size |-> Some(<<1920, 1080>>)]

OutputB == [logical_position |-> Some(<<1920, 0>>), logical_size |-> Some(<<1920, 1080>>)]

\* an output that advertised no logical position, one that advertised no logical size
OutputNoPosition == [logical_position |-> None, logical_size |-> Some(<<1920, 1080>>)]

OutputNoSize == [logical_position |-> Some(<<0, 0>>), logical_size |-> None]

\* what output_state.outputs() may hold after the first roundtrip
OutputLists ==
    { <<a, b>> : a \in {OutputA, OutputNoPosition, OutputNoSize},
                 b \in {OutputB, OutputNoPosition, OutputNoSize} }

\* a plausible slip: the region is given the size of the output and no position
output_region_at_origin(info) ==
    IF info.logical_position = None \/ info.logical_size = None
    THEN None
    ELSE from_xywh(0, 0, info.logical_size[1][1], info.logical_size[1][2])

\* Region::from_xywh(position.0, position.1, size.0 as u32, size.1 as u32) of the init
\* loop; None stands for the panic of one of its unwrap calls
output_region(info) ==
    IF info.logical_position = None \/ info.logical_size = None
    THEN None
    ELSE from_xywh(info.logical_position[1][1], info.logical_position[1][2],
                   info.logical_size[1][1], info.logical_size[1][2])

\* surface-local coordinates are f64: a coordinate is the rational <<num, den>>
Floor(q) == q[1] \div q[2]

\* pointer positions the compositor reports: (1900.5, 500.25) on output A,
\* (80, 500.75) and (10, 10) on output B
RawPoints ==
    { [surface |-> 1, position |-> << <<3801, 2>>, <<2001, 4>> >>],
      [surface |-> 2, position |-> << <<80, 1>>, <<2003, 4>> >>],
      [surface |-> 2, position |-> << <<10, 1>>, <<10, 1>> >>] }

\* linux input event code of the left mouse button, as re-exported by the toolkit
BTN_LEFT == 272

\* the right button (0x111) and a code sharing no bit with BTN_LEFT (0x2c0)
Buttons == {BTN_LEFT, 273, 704}

ButtonKinds == {"Press", "Release"}

\* Enter, Leave, and Motion for the kinds the `_ => {}` arm takes
OtherKinds == {"Enter", "Leave", "Motion"}

PointerEvents ==
    { [kind |-> k, button |-> b, surface |-> p.surface, position |-> p.position] :
        k \in ButtonKinds, b \in Buttons, p \in RawPoints }
    \cup
    { [kind |-> k, button |-> 0, surface |-> p.surface, position |-> p.position] :
        k \in OtherKinds, p \in RawPoints }

\* the surface new_capability creates for the pointer's cursor: never put in the list
CursorSurface == 3

\* pointer events the compositor should never send: their surface is no overlay surface
ForeignEvents ==
    { [kind |-> k, button |-> b, surface |-> CursorSurface,
       position |-> << <<5, 1>>, <<5, 1>> >>] :
        k \in ButtonKinds, b \in {BTN_LEFT} }
    \cup
    { [kind |-> "Motion", button |-> 0, surface |-> CursorSurface,
       position |-> << <<5, 1>>, <<5, 1>> >>] }

AllPointerEvents == PointerEvents \cup ForeignEvents

Keysyms == {"Escape", "Return"}

\* u32 bitwise and
RECURSIVE BitAnd(_, _)
BitAnd(a, b) ==
    IF a = 0 \/ b = 0 THEN 0
    ELSE (a % 2) * (b % 2) + 2 * BitAnd(a \div 2, b \div 2)

\* the button codes of the model for which `button & BTN_LEFT > 0`
LeftMasked == { b \in Buttons \cup {0} : BitAnd(b, BTN_LEFT) > 0 }

\* `button & BTN_LEFT > 0`
is_left(button) == button \in LeftMasked

\* a plausible slip: the surface's region origin is not added
to_global_local_only(position, region) ==
    Pos(Floor(position[1]), Floor(position[2]))

\* Pos { x: position.0.floor() as i32 + region.x(), y: position.1.floor() as i32 + region.y() }
to_global(position, region) ==
    Pos(Floor(position[1]) + region.x, Floor(position[2]) + region.y)

\* a plausible slip: a drag begins on any event while the button is held
drag_detected_always(pos, pressed_pos) == TRUE

\* `!pos.eq(&pressed_pos)`
drag_detected(pos, pressed_pos) == pos # pressed_pos

----------------------------------------------------------------------------
(* Frame pacing *)

\* let fps = 60
Fps == 60

\* let interval = 1000 / fps  (milliseconds)
Interval == 1000 \div Fps

IntervalTicks == Interval * TicksPerMs

\* durations are kept up to the pacing interval: longer ones behave alike
Saturate(t) == Min(t, IntervalTicks)

\* Duration::as_millis
as_millis(ticks) == ticks \div TicksPerMs

\* a plausible slip: no pacing sleep
sleep_ticks_none(elapsed_ticks) == 0

\* the requested sleep of `frame`, in ticks
sleep_ticks(elapsed_ticks) ==
    IF as_millis(elapsed_ticks) < Interval
    THEN (Interval - as_millis(elapsed_ticks)) * TicksPerMs
    ELSE 0

----------------------------------------------------------------------------
(* Initial state: wait_for_selection at the entry of its dispatch loop *)

Init ==
    /\ layer = InitLayer
    /\ exit = FALSE
    /\ pos_pressed = None
    /\ pos_current = DefaultPos
    /\ selection = DefaultSelection
    /\ since_last_draw = 0
    /\ frame_cb = [s \in Surfaces |-> 0]
    /\ pc = "loop"
    /\ pending = 0
    /\ frame_left = 0
    /\ result = None
    /\ g_began = FALSE
    /\ g_end = None
    /\ g_drag_done = FALSE
    /\ g_pressed = FALSE
    /\ g_click = "idle"
    /\ g_esc = "no"
    /\ g_last_ev = None
    /\ g_frame_draw = [s \in Surfaces |-> None]
    /\ g_pace = None
    /\ outputs = <<OutputA, OutputB>>
    /\ failure = ""
    /\ capture = <<>>
    /\ g_press_pos = None
    /\ g_painted = None
    /\ g_wire = None
    /\ g_own = [s \in Surfaces |-> None]
    /\ g_shadow = DefaultSelection
    /\ h_base = DefaultSelection
    /\ h_sel = DefaultSelection
    /\ h_seq = <<>>
    /\ h_call = None
    /\ h_ctx = None
    /\ h_canvas = None

----------------------------------------------------------------------------
(* The dispatch loop of wait_for_selection *)

\* event_queue.blocking_dispatch(&mut layer_state): a batch of up to max queued callbacks
blocking_dispatch_upto(max) ==
    /\ pc = "loop"
    /\ \E n \in 1..max : pending' = n
    /\ pc' = "dispatch"
    /\ UNCHANGED <<layer, exit, pos_pressed, pos_current, selection, since_last_draw,
                   frame_cb, frame_left, result,
                   g_began, g_end, g_drag_done, g_pressed, g_click, g_esc, g_last_ev, g_frame_draw,
                   g_pace>>
    /\ UNCHANGED <<runVars, obsVars, harnessVars, g_shadow, drawVars>>

\* event_queue.blocking_dispatch(&mut layer_state): a batch of queued callbacks
blocking_dispatch == blocking_dispatch_upto(MaxBatch)

\* event_queue.blocking_dispatch(&mut layer_state): a longer batch of queued callbacks
blocking_dispatch_long == blocking_dispatch_upto(MaxLongBatch)

\* a plausible slip: the loop never tests exit
loop_breaks_never(exit_flag) == FALSE

\* `if layer_state.exit { break; }`
loop_breaks(exit_flag) == exit_flag

\* the error of `.ok_or(anyhow!("failed to get selection"))`
NoSelection == "failed to get selection"

\* a plausible slip: a missing rectangle is reported as the dispatch error is
ok_or_dispatch_error(region) == IF region = None THEN "DispatchError" ELSE ""

\* the Err payload `.ok_or(anyhow!("failed to get selection"))` yields, "" for Ok
ok_or(region) == IF region = None THEN NoSelection ELSE ""

\* blocking_dispatch returns; the loop breaks on exit and the function returns
\* selection.to_region().ok_or(..)
dispatch_return ==
    /\ pc = "dispatch"
    /\ pending = 0
    /\ frame_left = 0
    /\ IF loop_breaks(exit)
       THEN /\ pc' = "done"
            /\ result' = to_region(selection)
            /\ failure' = ok_or(to_region(selection))
       ELSE /\ pc' = "loop"
            /\ UNCHANGED <<result, failure>>
    /\ UNCHANGED <<outputs, capture, obsVars>>
    /\ UNCHANGED <<layer, exit, pos_pressed, pos_current, selection, since_last_draw,
                   frame_cb, pending, frame_left,
                   g_began, g_end, g_drag_done, g_pressed, g_click, g_esc, g_last_ev, g_frame_draw,
                   g_pace>>
    /\ UNCHANGED <<harnessVars, g_shadow, drawVars>>

\* a callback of the batch is taken from the queue
Dequeue ==
    /\ pc = "dispatch"
    /\ frame_left = 0
    /\ pending > 0
    /\ pending' = pending - 1

----------------------------------------------------------------------------
(* Renderer *)

Later(d, t) == IF d = None THEN None ELSE Some(Saturate(d[1] + t))

\* a request of draw: its name and, for damage_buffer, the rectangle passed
Request(name, arg) == [req |-> name, arg |-> arg]

\* a plausible slip: the surface is committed before the next frame is requested
draw_requests_commit_early(ctx) ==
    << Request("copy_from_slice", None),
       Request("damage_buffer", Some([x |-> 0, y |-> 0, w |-> ctx.region.w, h |-> ctx.region.h])),
       Request("attach_to", None),
       Request("commit", None),
       Request("frame", None) >>

\* what draw does with the filled pixmap of a known surface, in the order of the code:
\* canvas.copy_from_slice, surface.damage_buffer(0, 0, width, height),
\* buffer.attach_to(surface), surface.frame(qh, surface), surface.commit()
draw_requests(ctx) ==
    << Request("copy_from_slice", None),
       Request("damage_buffer", Some([x |-> 0, y |-> 0, w |-> ctx.region.w, h |-> ctx.region.h])),
       Request("attach_to", None),
       Request("frame", None),
       Request("commit", None) >>

\* the wl_surface.frame requests in a sequence of requests
frame_requests(reqs) == Len(SelectSeq(reqs, LAMBDA r : r.req = "frame"))

\* LayerState::draw: last_draw = now; for a known surface the buffer is filled,
\* attached, one frame callback is requested and the surface is committed
\* (cbs: the callbacks outstanding when draw is entered)
draw(s, cbs) ==
    /\ since_last_draw' = 0
    /\ LET found == find_layer(layer, s)
       IN IF found # None
          THEN LET reqs == draw_requests(found[1])
               IN /\ frame_cb' = [cbs EXCEPT ![s] = @ + frame_requests(reqs)]
                  /\ g_wire' = Some(reqs)
          ELSE /\ frame_cb' = cbs
               /\ UNCHANGED g_wire

\* CompositorHandler::frame, having slept `slept` ticks before it draws
frame_body(s, slept) ==
    /\ Dequeue
    /\ frame_cb[s] > 0
    /\ selection' = update(selection, pos_current)
    /\ draw(s, [frame_cb EXCEPT ![s] = @ - 1])
    /\ UNCHANGED <<layer, exit, pos_pressed, pos_current, pc, frame_left, result,
                   g_began, g_end, g_drag_done, g_pressed, g_click, g_esc, g_last_ev>>
    /\ UNCHANGED <<runVars, g_press_pos, harnessVars, g_shadow>>

\* std::thread::sleep(d) returns after d or later
Slept(elapsed_ticks) ==
    IF sleep_ticks(elapsed_ticks) = 0
    THEN {0}
    ELSE { sleep_ticks(elapsed_ticks) + over : over \in 0..MaxOversleep }

\* CompositorHandler::frame
frame(s) ==
    /\ \E slept \in Slept(since_last_draw) : frame_body(s, slept)
    /\ UNCHANGED <<g_frame_draw, g_pace, g_painted, g_own>>

\* CompositorHandler::frame, with the draw times of the surfaces recorded: g_pace is
\* None when the callback came an interval or more after the surface's previous
\* frame-callback draw began (or there was none), and else the ticks from the begin of
\* that draw to the begin of this one
frame_timed(s) ==
    \E slept \in Slept(since_last_draw) :
        /\ frame_body(s, slept)
        /\ g_frame_draw' = [t \in Surfaces |->
                               IF t = s THEN Some(0) ELSE Later(g_frame_draw[t], slept)]
        /\ g_pace' = IF g_frame_draw[s] # None /\ g_frame_draw[s][1] < IntervalTicks
                     THEN Some(Saturate(g_frame_draw[s][1] + slept))
                     ELSE None
        /\ UNCHANGED <<g_painted, g_own>>

\* CompositorHandler::frame, with the time of each surface's own last draw recorded
frame_clocked(s) ==
    \E slept \in Slept(since_last_draw) :
        /\ frame_body(s, slept)
        /\ g_own' = [t \in Surfaces |-> IF t = s THEN Some(0) ELSE Later(g_own[t], slept)]
        /\ UNCHANGED <<g_frame_draw, g_pace, g_painted>>

\* Rect::from_points(&[from, to]): the bounding rectangle of the two points
from_points(from, to) ==
    [x |-> Min(from.x, to.x), y |-> Min(from.y, to.y),
     w |-> Abs(from.x - to.x), h |-> Abs(from.y - to.y)]

\* the rectangle draw makes transparent in the gray fill, in global coordinates: none
\* without a value in the Selection, none unless width and height are positive
cut_out(sel) ==
    IF ~has_value(sel)
    THEN None
    ELSE LET rect == from_points(sel.data[1][1], sel.data[1][2])
         IN IF rect.h > 0 /\ rect.w > 0 THEN Some(rect) ELSE None

\* Color::from_rgba8(0x64, 0x64, 0x64, 0x80), the overlay colour
Gray == [r |-> 100, g |-> 100, b |-> 100, a |-> 128]

\* paint.set_color_rgba8(0, 0, 0, 0x00), written with BlendMode::Source
Clear == [r |-> 0, g |-> 0, b |-> 0, a |-> 0]

\* the pixels of a pixmap, <<column, row>>
Pixels(pixmap) == (0..(pixmap.w - 1)) \X (0..(pixmap.h - 1))

\* pixmap.fill(colour)
fill(pixmap, colour) == [p \in Pixels(pixmap) |-> colour]

\* the rectangle moved by (tx, ty) covers the pixel when it holds the pixel's centre
\* (p + 1/2 in both directions; compared doubled)
covers(rect, tx, ty, p) ==
    /\ 2 * (rect.x + tx) <= 2 * p[1] + 1
    /\ 2 * p[1] + 1 < 2 * (rect.x + tx + rect.w)
    /\ 2 * (rect.y + ty) <= 2 * p[2] + 1
    /\ 2 * p[2] + 1 < 2 * (rect.y + ty + rect.h)

\* pixmap.fill_rect(rect, paint, Transform::from_translate(tx, ty), None) with a paint
\* of BlendMode::Source: the pixels of the canvas the moved rectangle covers are
\* replaced, what falls outside the canvas is clipped
fill_rect(canvas, rect, colour, tx, ty) ==
    [p \in DOMAIN canvas |-> IF covers(rect, tx, ty, p) THEN colour ELSE canvas[p]]

\* a plausible slip: the rectangle is painted at its global position
pixels_untranslated(ctx, sel) ==
    LET gray == fill(ctx.pixmap, Gray)
        cut == cut_out(sel)
    IN IF cut = None THEN gray ELSE fill_rect(gray, cut[1], Clear, 0, 0)

\* what draw leaves in the pixmap of a context and copies to the canvas: the gray fill
\* and the Selection's rectangle cleared in it, moved by minus the region's origin
pixels(ctx, sel) ==
    LET gray == fill(ctx.pixmap, Gray)
        cut == cut_out(sel)
    IN IF cut = None
       THEN gray
       ELSE fill_rect(gray, cut[1], Clear, -ctx.region.x, -ctx.region.y)

\* CompositorHandler::frame, with what its draw paints recorded
frame_painted(s) ==
    /\ \E slept \in Slept(since_last_draw) : frame_body(s, slept)
    /\ g_painted' = Some(cut_out(selection'))
    /\ UNCHANGED <<g_frame_draw, g_pace, g_own>>

\* LayerShellHandler::configure: the surface is drawn, whatever was requested for it
\* before (cap: the callbacks counted per surface)
configure_capped(s, cap) ==
    /\ Dequeue
    /\ frame_cb[s] < cap
    /\ draw(s, frame_cb)
    /\ UNCHANGED <<layer, exit, pos_pressed, pos_current, selection, pc, frame_left,
                   result,
                   g_began, g_end, g_drag_done, g_pressed, g_click, g_esc, g_last_ev, g_frame_draw,
                   g_pace>>
    /\ UNCHANGED <<runVars, obsVars, harnessVars, g_shadow>>

\* LayerShellHandler::configure, handled when no more than the surface's first frame
\* callbacks are outstanding
configure_body(s) == configure_capped(s, MaxCallbacks)

\* LayerShellHandler::configure, a further configure event of a surface included
configure_again(s) ==
    /\ configure_capped(s, MaxPending)
    /\ UNCHANGED g_own

\* LayerShellHandler::configure
configure(s) ==
    /\ configure_body(s)
    /\ UNCHANGED g_own

\* LayerShellHandler::configure, with the time of the surface's own last draw recorded
configure_clocked(s) ==
    /\ configure_body(s)
    /\ g_own' = [g_own EXCEPT ![s] = Some(0)]

\* time passes by one clock tick
Tick_body ==
    /\ pc # "done"
    /\ since_last_draw' = Saturate(since_last_draw + 1)
    /\ g_frame_draw' = [t \in Surfaces |-> Later(g_frame_draw[t], 1)]
    /\ UNCHANGED <<layer, exit, pos_pressed, pos_current, selection, frame_cb, pc,
                   pending, frame_left, result,
                   g_began, g_end, g_drag_done, g_pressed, g_click, g_esc, g_last_ev, g_pace>>
    /\ UNCHANGED <<runVars, obsVars, harnessVars, g_shadow, g_wire>>

\* time passes by one clock tick, as the handlers of the session see it
Tick ==
    /\ Tick_body
    /\ UNCHANGED g_own

\* time passes by one clock tick, the clocks of the surfaces' own draws with it
Tick_clocked ==
    /\ Tick_body
    /\ g_own' = [t \in Surfaces |-> Later(g_own[t], 1)]

----------------------------------------------------------------------------
(* Input Tracker *)

\* a plausible slip: the cancel key also clears the Selection and the press position
press_key_clears(keysym) ==
    /\ Dequeue
    /\ exit' = IF keysym = "Escape" THEN TRUE ELSE exit
    /\ selection' = IF keysym = "Escape" THEN reset(selection) ELSE selection
    /\ pos_pressed' = IF keysym = "Escape" THEN None ELSE pos_pressed
    /\ g_esc' = IF keysym = "Escape" /\ g_esc = "no"
                THEN (IF g_pressed THEN "busy" ELSE "idle")
                ELSE g_esc
    /\ UNCHANGED <<layer, pos_current, since_last_draw, frame_cb,
                   pc, frame_left, result,
                   g_began, g_end, g_drag_done, g_pressed, g_click, g_last_ev, g_frame_draw, g_pace>>
    /\ UNCHANGED <<runVars, obsVars, harnessVars, g_shadow, drawVars>>

\* KeyboardHandler::press_key
press_key(keysym) ==
    /\ Dequeue
    /\ exit' = IF keysym = "Escape" THEN TRUE ELSE exit
    /\ g_esc' = IF keysym = "Escape" /\ g_esc = "no"
                THEN (IF g_pressed THEN "busy" ELSE "idle")
                ELSE g_esc
    /\ UNCHANGED <<layer, pos_pressed, pos_current, selection, since_last_draw, frame_cb,
                   pc, frame_left, result,
                   g_began, g_end, g_drag_done, g_pressed, g_click, g_last_ev, g_frame_draw, g_pace>>
    /\ UNCHANGED <<runVars, obsVars, harnessVars, g_shadow, drawVars>>

\* KeyboardHandler::release_key
release_key(keysym) ==
    /\ Dequeue
    /\ UNCHANGED <<layer, exit, pos_pressed, pos_current, selection, since_last_draw,
                   frame_cb, pc, frame_left, result,
                   g_began, g_end, g_drag_done, g_pressed, g_click, g_esc, g_last_ev, g_frame_draw,
                   g_pace>>
    /\ UNCHANGED <<runVars, obsVars, harnessVars, g_shadow, drawVars>>

\* the shape of the pointer event sequence after one more event at global position pos:
\* "idle" no button event yet; "pressed" one left press at P and since then only events
\* at P that are no button events; "clicked" then a left release at P and no press
\* since; "held" one left press at P and since then events that are no button events,
\* one at least not at P; "dragged" one left press at P, events that are no button
\* events, then a left release at another position than P as the last pointer event;
\* "other" anything else
click_after(ev, pos) ==
    LET button_event == ev.kind \in ButtonKinds
        left_release == ev.kind = "Release" /\ ev.button = BTN_LEFT
    IN CASE g_click = "idle" ->
              IF ev.kind = "Press" /\ ev.button = BTN_LEFT THEN "pressed"
              ELSE IF button_event THEN "other"
              ELSE "idle"
         [] g_click = "pressed" ->
              IF Some(pos) # pos_pressed
              THEN (IF left_release THEN "dragged"
                    ELSE IF button_event THEN "other"
                    ELSE "held")
              ELSE IF left_release THEN "clicked"
              ELSE IF button_event THEN "other"
              ELSE "pressed"
         [] g_click = "held" ->
              IF left_release /\ Some(pos) # pos_pressed THEN "dragged"
              ELSE IF button_event THEN "other"
              ELSE "held"
         [] g_click = "clicked" ->
              IF ev.kind = "Press" THEN "other" ELSE "clicked"
         [] OTHER -> "other"

\* what one iteration of the `for event in events` loop of pointer_frame makes of the
\* Selection sel, the event being at global position pos and pressed_pos recorded
after_event(sel, ev, pos, pressed_pos) ==
    LET begins == pressed_pos # None /\ drag_detected(pos, pressed_pos[1])
        sel1 == IF begins THEN begin(sel, pressed_pos[1]) ELSE sel
        released == ev.kind = "Release" /\ is_left(ev.button)
    IN IF released THEN end(sel1, pos) ELSE sel1

\* one iteration of the `for event in events` loop of pointer_frame, the surface of the
\* event being in the list with this region
handle_event(ev, region) ==
    LET pos == to_global(ev.position, region)
        click == click_after(ev, pos)
        begins == pos_pressed # None /\ drag_detected(pos, pos_pressed[1])
        sel1 == IF begins THEN begin(selection, pos_pressed[1]) ELSE selection
        pressed == ev.kind = "Press" /\ is_left(ev.button)
        released == ev.kind = "Release" /\ is_left(ev.button)
    IN /\ pos_current' = pos
       /\ pos_pressed' = IF pressed THEN Some(pos)
                         ELSE IF released THEN None
                         ELSE pos_pressed
       /\ selection' = after_event(selection, ev, pos, pos_pressed)
       /\ exit' = IF released THEN TRUE ELSE exit
       /\ g_began' = (g_began \/ begins)
       /\ g_end' = IF released /\ g_end = None
                   THEN Some([on |-> sel1.on, data |-> end(sel1, pos).data])
                   ELSE g_end
       /\ g_drag_done' = (g_drag_done \/ (released /\ sel1.on))
       /\ g_pressed' = (g_pressed \/ ev.kind = "Press")
       /\ g_click' = click
       /\ g_last_ev' = Some([surface |-> ev.surface, position |-> ev.position])
       /\ g_press_pos' = IF click = "dragged" THEN pos_pressed ELSE None

\* the panic of `.unwrap()` on the region of a surface that is not in the list: the
\* process aborts in the iteration of that event
unwrap_panics ==
    /\ pc' = "panic"
    /\ failure' = "panic: unwrap of the surface's region"
    /\ UNCHANGED <<exit, pos_pressed, pos_current, selection,
                   g_began, g_end, g_drag_done, g_pressed, g_click, g_last_ev, g_press_pos>>

\* one iteration of the `for event in events` loop of pointer_frame, `left` events
\* remaining after it
pointer_event(ev, left) ==
    LET region == surface_region(layer, ev.surface)
    IN IF region = None
       THEN /\ unwrap_panics
            /\ UNCHANGED frame_left
       ELSE /\ frame_left' = left
            /\ UNCHANGED <<pc, failure>>
            /\ handle_event(ev, region[1])

\* PointerHandler::pointer_frame is called with n events; its first iteration
pointer_frame_body(ev, n) ==
    /\ Dequeue
    /\ pointer_event(ev, n - 1)
    /\ UNCHANGED <<layer, since_last_draw, frame_cb, result, g_esc, g_frame_draw,
                   g_pace>>
    /\ UNCHANGED <<outputs, capture, g_painted, harnessVars, drawVars>>

\* the Selection of the run that handles the same pointer events and no frame callback,
\* after this event
shadow_after(ev) ==
    LET region == surface_region(layer, ev.surface)
    IN IF region = None
       THEN g_shadow
       ELSE after_event(g_shadow, ev, to_global(ev.position, region[1]), pos_pressed)

\* PointerHandler::pointer_frame is called with n events; its first iteration
pointer_frame(ev, n) ==
    /\ pointer_frame_body(ev, n)
    /\ UNCHANGED g_shadow

\* pointer_frame, the event handled in the run without frame callbacks too
pointer_frame_replayed(ev, n) ==
    /\ pointer_frame_body(ev, n)
    /\ g_shadow' = shadow_after(ev)

\* PointerHandler::pointer_frame: a further iteration over its events
pointer_frame_next_body(ev) ==
    /\ pc = "dispatch"
    /\ frame_left > 0
    /\ pointer_event(ev, frame_left - 1)
    /\ UNCHANGED <<layer, since_last_draw, frame_cb, pending, result, g_esc,
                   g_frame_draw, g_pace>>
    /\ UNCHANGED <<outputs, capture, g_painted, harnessVars, drawVars>>

\* PointerHandler::pointer_frame: a further iteration over its events
pointer_frame_next(ev) ==
    /\ pointer_frame_next_body(ev)
    /\ UNCHANGED g_shadow

\* a further iteration of pointer_frame, handled in the run without frame callbacks too
pointer_frame_next_replayed(ev) ==
    /\ pointer_frame_next_body(ev)
    /\ g_shadow' = shadow_after(ev)

----------------------------------------------------------------------------
(* Setup of wait_for_selection, its failures, and main after it *)

\* the errors `?` propagates from connect_to_env, registry_queue_init, the bind calls,
\* SlotPool::new and the roundtrips
SetupErrors == {"ConnectError", "GlobalError", "BindError", "CreatePoolError", "DispatchError"}

\* wait_for_selection is entered; the compositor has any of the output lists
InitSetup ==
    /\ layer = <<>>
    /\ exit = FALSE
    /\ pos_pressed = None
    /\ pos_current = DefaultPos
    /\ selection = DefaultSelection
    /\ since_last_draw = 0
    /\ frame_cb = [s \in Surfaces |-> 0]
    /\ pc = "setup"
    /\ pending = 0
    /\ frame_left = 0
    /\ result = None
    /\ g_began = FALSE
    /\ g_end = None
    /\ g_drag_done = FALSE
    /\ g_pressed = FALSE
    /\ g_click = "idle"
    /\ g_esc = "no"
    /\ g_last_ev = None
    /\ g_frame_draw = [s \in Surfaces |-> None]
    /\ g_pace = None
    /\ outputs \in OutputLists
    /\ failure = ""
    /\ capture = <<>>
    /\ g_press_pos = None
    /\ g_painted = None
    /\ g_wire = None
    /\ g_own = [s \in Surfaces |-> None]
    /\ g_shadow = DefaultSelection
    /\ h_base = DefaultSelection
    /\ h_sel = DefaultSelection
    /\ h_seq = <<>>
    /\ h_call = None
    /\ h_ctx = None
    /\ h_canvas = None

\* what only the run of the dispatch loop changes
sessionVars == <<exit, pos_pressed, pos_current, selection, since_last_draw, frame_cb,
                 pending, frame_left,
                 g_began, g_end, g_drag_done, g_pressed, g_click, g_esc, g_last_ev,
                 g_frame_draw, g_pace, g_press_pos, g_painted, g_wire, g_own, g_shadow>>

\* the connection, the globals and the pool are set up and the outputs are known
setup_done ==
    /\ pc = "setup"
    /\ pc' = "init"
    /\ UNCHANGED <<layer, result, outputs, failure, capture, sessionVars, harnessVars>>

\* one of the `?` of the setup returns its error
setup_fails(err) ==
    /\ pc = "setup"
    /\ pc' = "done"
    /\ failure' = err
    /\ UNCHANGED <<layer, result, outputs, capture, sessionVars, harnessVars>>

\* Pixmap::new(width, height): None for a zero width or height
pixmap_new(w, h) == IF w > 0 /\ h > 0 THEN Some([w |-> w, h |-> h]) ELSE None

\* one iteration of the init loop: the region of the output is unwrapped, then the
\* layer surface is created, sized, committed and pushed with a pixmap of the
\* region's width and height
init_layer ==
    /\ pc = "init"
    /\ Len(layer) < Len(outputs)
    /\ LET i == Len(layer) + 1
           region == output_region(outputs[i])
       IN IF region = None
          THEN /\ pc' = "panic"
               /\ failure' = "panic: unwrap of the output's geometry"
               /\ UNCHANGED layer
          ELSE LET pixmap == pixmap_new(region[1].w, region[1].h)
               IN IF pixmap = None
                  THEN /\ pc' = "panic"
                       /\ failure' = "panic: unwrap of the pixmap"
                       /\ UNCHANGED layer
                  ELSE /\ layer' = Append(layer, [surface |-> i, region |-> region[1],
                                                   pixmap |-> pixmap[1]])
                       /\ UNCHANGED <<pc, failure>>
    /\ UNCHANGED <<result, outputs, capture, sessionVars, harnessVars>>

\* the roundtrip after the init loop; the dispatch loop is entered
init_roundtrip ==
    /\ pc = "init"
    /\ Len(layer) = Len(outputs)
    /\ pc' = "loop"
    /\ UNCHANGED <<layer, result, outputs, failure, capture, sessionVars, harnessVars>>

\* `event_queue.blocking_dispatch(&mut layer_state)?` returns the error of the call
dispatch_fails ==
    /\ pc = "loop"
    /\ pc' = "done"
    /\ failure' = "DispatchError"
    /\ UNCHANGED <<layer, result, outputs, capture, sessionVars, harnessVars>>

\* `.expect("create buffer")` of draw panics, draw called by frame
frame_panics(s) ==
    /\ Dequeue
    /\ frame_cb[s] > 0
    /\ find_layer(layer, s) # None
    /\ selection' = update(selection, pos_current)
    /\ since_last_draw' = 0
    /\ frame_cb' = [frame_cb EXCEPT ![s] = @ - 1]
    /\ pc' = "panic"
    /\ failure' = "panic: create buffer"
    /\ UNCHANGED <<layer, exit, pos_pressed, pos_current, frame_left, result,
                   g_began, g_end, g_drag_done, g_pressed, g_click, g_esc, g_last_ev,
                   g_frame_draw, g_pace>>
    /\ UNCHANGED <<outputs, capture, obsVars, harnessVars, g_shadow, drawVars>>

\* `.expect("create buffer")` of draw panics, draw called by configure
configure_panics(s) ==
    /\ Dequeue
    /\ frame_cb[s] < MaxCallbacks
    /\ find_layer(layer, s) # None
    /\ since_last_draw' = 0
    /\ pc' = "panic"
    /\ failure' = "panic: create buffer"
    /\ UNCHANGED <<layer, exit, pos_pressed, pos_current, selection, frame_cb, frame_left,
                   result,
                   g_began, g_end, g_drag_done, g_pressed, g_click, g_esc, g_last_ev,
                   g_frame_draw, g_pace>>
    /\ UNCHANGED <<outputs, capture, obsVars, harnessVars, g_shadow, drawVars>>

\* a plausible slip: width and height passed in the wrong order
capture_args_swapped(area) == [x |-> area.x, y |-> area.y, w |-> area.h, h |-> area.w]

\* capture::area(area.x(), area.y(), area.width(), area.height())
capture_args(area) == [x |-> area.x, y |-> area.y, w |-> area.w, h |-> area.h]

\* main: `wait_for_selection()?` passed a rectangle on and capture::area sends the
\* capture_area request
main_capture ==
    /\ pc = "done"
    /\ result # None
    /\ capture' = Append(capture, capture_args(result[1]))
    /\ pc' = "captured"
    /\ UNCHANGED <<layer, result, outputs, failure, sessionVars, harnessVars>>

\* main: capture::area fails before its request is sent (no session bus, no pipe)
main_capture_fails ==
    /\ pc = "done"
    /\ result # None
    /\ failure' = "capture error"
    /\ pc' = "failed"
    /\ UNCHANGED <<layer, result, outputs, capture, sessionVars, harnessVars>>

\* main: `wait_for_selection()?` returns the error
main_returns_err ==
    /\ pc = "done"
    /\ result = None
    /\ pc' = "failed"
    /\ UNCHANGED <<layer, result, outputs, failure, capture, sessionVars, harnessVars>>

----------------------------------------------------------------------------
(* Specifications *)

Next ==
    \/ blocking_dispatch
    \/ dispatch_return
    \/ \E s \in Surfaces : frame(s)
    \/ \E s \in Surfaces : configure(s)
    \/ \E k \in Keysyms : press_key(k)
    \/ \E k \in Keysyms : release_key(k)
    \/ \E ev \in PointerEvents, n \in 1..MaxFrame : pointer_frame(ev, n)
    \/ \E ev \in PointerEvents : pointer_frame_next(ev)

\* the session as the event loop sees it: events arrive back to back
Spec == Init /\ [][Next]_vars

\* the renderer under a running clock: frame callbacks, configure events and key
\* presses arrive at any time, the pointer is not touched
NextPacing ==
    \/ blocking_dispatch
    \/ dispatch_return
    \/ \E s \in Surfaces : frame_timed(s)
    \/ \E s \in Surfaces : configure(s)
    \/ \E k \in Keysyms : press_key(k)
    \/ \E k \in Keysyms : release_key(k)
    \/ Tick

SpecPacing == Init /\ [][NextPacing]_vars

\* the renderer under a running clock, with the time of each surface's own last draw
\* (by a frame callback or by a configure event) recorded
NextClock ==
    \/ blocking_dispatch
    \/ dispatch_return
    \/ \E s \in Surfaces : frame_clocked(s)
    \/ \E s \in Surfaces : configure_clocked(s)
    \/ \E k \in Keysyms : press_key(k)
    \/ \E k \in Keysyms : release_key(k)
    \/ Tick_clocked

SpecClock == Init /\ [][NextClock]_vars

\* the pointer events of a user who works with the left button alone
LeftButtonEvents ==
    { ev \in PointerEvents : ev.kind = "Motion" \/ ev.button = BTN_LEFT }

\* the session with the painting of the frame callbacks recorded, the pointer being
\* worked with the left button
NextRender ==
    \/ blocking_dispatch
    \/ dispatch_return
    \/ \E s \in Surfaces : frame_painted(s)
    \/ \E s \in Surfaces : configure(s)
    \/ \E k \in Keysyms : press_key(k)
    \/ \E k \in Keysyms : release_key(k)
    \/ \E ev \in LeftButtonEvents, n \in 1..MaxFrame : pointer_frame(ev, n)
    \/ \E ev \in LeftButtonEvents : pointer_frame_next(ev)

SpecRender == Init /\ [][NextRender]_vars

\* the session with the compositor sending configure events at any time, also to a
\* surface that was configured before
NextCallbacks ==
    \/ blocking_dispatch
    \/ dispatch_return
    \/ \E s \in Surfaces : frame(s)
    \/ \E s \in Surfaces : configure_again(s)
    \/ \E k \in Keysyms : press_key(k)
    \/ \E k \in Keysyms : release_key(k)
    \/ \E ev \in LeftButtonEvents : pointer_frame(ev, 1)

SpecCallbacks == Init /\ [][NextCallbacks]_vars

\* the session of a user who works with the left button, next to the run that handles
\* the same pointer and key events and no frame callback and no configure event
NextReplay ==
    \/ blocking_dispatch_long
    \/ dispatch_return
    \/ \E s \in Surfaces : frame(s)
    \/ \E s \in Surfaces : configure(s)
    \/ \E k \in Keysyms : press_key(k)
    \/ \E k \in Keysyms : release_key(k)
    \/ \E ev \in LeftButtonEvents, n \in 1..MaxFrame : pointer_frame_replayed(ev, n)
    \/ \E ev \in LeftButtonEvents : pointer_frame_next_replayed(ev)

SpecReplay == Init /\ [][NextReplay]_vars

\* the whole run of main: setup, the session with everything that can fail in it
\* (also pointer events for a surface that is no overlay surface), and the capture
NextFull ==
    \/ setup_done
    \/ \E err \in SetupErrors : setup_fails(err)
    \/ init_layer
    \/ init_roundtrip
    \/ blocking_dispatch
    \/ dispatch_fails
    \/ dispatch_return
    \/ \E s \in Surfaces : frame(s)
    \/ \E s \in Surfaces : frame_panics(s)
    \/ \E s \in Surfaces : configure(s)
    \/ \E s \in Surfaces : configure_panics(s)
    \/ \E k \in Keysyms : press_key(k)
    \/ \E k \in Keysyms : release_key(k)
    \/ \E ev \in AllPointerEvents, n \in 1..MaxFrame : pointer_frame(ev, n)
    \/ \E ev \in AllPointerEvents : pointer_frame_next(ev)
    \/ main_capture
    \/ main_capture_fails
    \/ main_returns_err

SpecFull == InitSetup /\ [][NextFull]_vars

----------------------------------------------------------------------------
(* The outputs changing under the running session *)

\* a third output plugged in during the session, and output B after a mode change
OutputC == [logical_position |-> Some(<<3840, 0>>), logical_size |-> Some(<<1920, 1080>>)]

OutputBResized == [logical_position |-> Some(<<1920, 0>>), logical_size |-> Some(<<1280, 720>>)]

\* a handler with an empty body is called; OutputState holds the outputs `now`
empty_handler(now) ==
    /\ Dequeue
    /\ outputs' = now
    /\ UNCHANGED <<layer, exit, pos_pressed, pos_current, selection, since_last_draw,
                   frame_cb, pc, frame_left, result,
                   g_began, g_end, g_drag_done, g_pressed, g_click, g_esc, g_last_ev, g_frame_draw,
                   g_pace>>
    /\ UNCHANGED <<failure, capture, obsVars, harnessVars, g_shadow, drawVars>>

\* OutputHandler::new_output
new_output ==
    /\ Len(outputs) = 2
    /\ empty_handler(Append(outputs, OutputC))

\* OutputHandler::update_output
update_output ==
    /\ Len(outputs) >= 2
    /\ empty_handler([outputs EXCEPT ![2] = IF @ = OutputB THEN OutputBResized ELSE OutputB])

\* OutputHandler::output_destroyed
output_destroyed ==
    /\ Len(outputs) >= 2
    /\ empty_handler(SubSeq(outputs, 1, Len(outputs) - 1))

\* LayerShellHandler::closed
closed(s) == empty_handler(outputs)

\* the run of wait_for_selection with outputs coming, changing and going and layer
\* surfaces being closed while the session runs
NextOutputs ==
    \/ setup_done
    \/ init_layer
    \/ init_roundtrip
    \/ blocking_dispatch
    \/ dispatch_return
    \/ \E s \in Surfaces : frame(s)
    \/ \E s \in Surfaces : configure(s)
    \/ \E k \in Keysyms : press_key(k)
    \/ \E k \in Keysyms : release_key(k)
    \/ \E ev \in LeftButtonEvents : pointer_frame(ev, 1)
    \/ new_output
    \/ update_output
    \/ output_destroyed
    \/ \E s \in Surfaces : closed(s)

SpecOutputs == InitSetup /\ [][NextOutputs]_vars

----------------------------------------------------------------------------
(* The methods of Selection applied to every Selection the program can hold *)

\* global positions of the reported pointer positions
Positions ==
    { to_global(p.position, find_layer(InitLayer, p.surface)[1].region) : p \in RawPoints }

\* empty, dragging (on) or committed (off) with an anchor and a cursor
SelectionStates ==
    {DefaultSelection}
    \cup { [data |-> Some(<<a, b>>), on |-> o] : a \in Positions, b \in Positions,
                                                  o \in BOOLEAN }

InitSelection ==
    /\ layer = InitLayer
    /\ exit = FALSE
    /\ pos_pressed = None
    /\ pos_current = DefaultPos
    /\ selection = DefaultSelection
    /\ since_last_draw = 0
    /\ frame_cb = [s \in Surfaces |-> 0]
    /\ pc = "loop"
    /\ pending = 0
    /\ frame_left = 0
    /\ result = None
    /\ g_began = FALSE
    /\ g_end = None
    /\ g_drag_done = FALSE
    /\ g_pressed = FALSE
    /\ g_click = "idle"
    /\ g_esc = "no"
    /\ g_last_ev = None
    /\ g_frame_draw = [s \in Surfaces |-> None]
    /\ g_pace = None
    /\ outputs = <<OutputA, OutputB>>
    /\ failure = ""
    /\ capture = <<>>
    /\ g_press_pos = None
    /\ g_painted = None
    /\ g_wire = None
    /\ g_own = [s \in Surfaces |-> None]
    /\ g_shadow = DefaultSelection
    /\ h_base \in SelectionStates
    /\ h_sel = h_base
    /\ h_seq = <<>>
    /\ h_call = None
    /\ h_ctx = None
    /\ h_canvas = None

\* selection.update(pos)
update_call(pos) ==
    /\ Len(h_seq) < MaxUpdates
    /\ h_sel' = update(h_sel, pos)
    /\ h_seq' = Append(h_seq, pos)
    /\ UNCHANGED <<h_base, h_call, h_ctx, h_canvas>>
    /\ UNCHANGED progVars

NextSelection == \E pos \in Positions : update_call(pos)

SpecSelection == InitSelection /\ [][NextSelection]_vars

\* a method of Selection is called with pos and leaves the Selection `after`; the call
\* and the Selection it met are kept
method_call(name, pos, after) ==
    /\ Len(h_seq) < MaxUpdates
    /\ h_sel' = after
    /\ h_seq' = Append(h_seq, pos)
    /\ h_call' = Some([method |-> name, pos |-> pos, met |-> h_sel])
    /\ UNCHANGED <<h_base, h_ctx, h_canvas>>
    /\ UNCHANGED progVars

\* selection.begin(pos)
begin_call(pos) == method_call("begin", pos, begin(h_sel, pos))

\* selection.update(pos)
update_recorded(pos) == method_call("update", pos, update(h_sel, pos))

\* selection.end(pos)
end_call(pos) == method_call("end", pos, end(h_sel, pos))

NextMethods ==
    \E pos \in Positions : begin_call(pos) \/ update_recorded(pos) \/ end_call(pos)

SpecMethods == InitSelection /\ [][NextMethods]_vars

----------------------------------------------------------------------------
(* draw applied to small outputs, pixel by pixel *)

\* two outputs side by side, MaxSide pixels wide and high
SmallContexts ==
    { [surface |-> i,
       region |-> [x |-> (i - 1) * MaxSide, y |-> 0, w |-> MaxSide, h |-> MaxSide],
       pixmap |-> [w |-> MaxSide, h |-> MaxSide]] : i \in Surfaces }

\* the positions on the two outputs and, the button held, around them
SmallPositions == { Pos(x, y) : x \in 0..(2 * MaxSide), y \in 0..MaxSide }

SmallSelections ==
    {DefaultSelection}
    \cup { [data |-> Some(<<a, b>>), on |-> o] : a \in SmallPositions, b \in SmallPositions,
                                                  o \in BOOLEAN }

InitDraw ==
    /\ layer = InitLayer
    /\ exit = FALSE
    /\ pos_pressed = None
    /\ pos_current = DefaultPos
    /\ selection = DefaultSelection
    /\ since_last_draw = 0
    /\ frame_cb = [s \in Surfaces |-> 0]
    /\ pc = "loop"
    /\ pending = 0
    /\ frame_left = 0
    /\ result = None
    /\ g_began = FALSE
    /\ g_end = None
    /\ g_drag_done = FALSE
    /\ g_pressed = FALSE
    /\ g_click = "idle"
    /\ g_esc = "no"
    /\ g_last_ev = None
    /\ g_frame_draw = [s \in Surfaces |-> None]
    /\ g_pace = None
    /\ outputs = <<OutputA, OutputB>>
    /\ failure = ""
    /\ capture = <<>>
    /\ g_press_pos = None
    /\ g_painted = None
    /\ g_wire = None
    /\ g_own = [s \in Surfaces |-> None]
    /\ g_shadow = DefaultSelection
    /\ h_base \in SmallSelections
    /\ h_sel = h_base
    /\ h_seq = <<>>
    /\ h_call = None
    /\ h_ctx \in { Some(ctx) : ctx \in SmallContexts }
    /\ h_canvas = None

\* draw of the context's surface: the pixmap is painted and copied to the canvas
draw_call ==
    /\ h_canvas = None
    /\ h_canvas' = Some(pixels(h_ctx[1], h_base))
    /\ UNCHANGED <<h_base, h_sel, h_seq, h_call, h_ctx>>
    /\ UNCHANGED progVars

SpecDraw == InitDraw /\ [][draw_call]_vars

\* the dispatch call runs the queued callbacks one after another on the loop's thread
\* and every handler returns; nothing makes a new event arrive while the loop blocks
SpecLive == Spec /\ WF_vars(pc = "dispatch" /\ Next)

----------------------------------------------------------------------------
(* Properties *)

\* the bounding box of an anchor and a cursor as a rectangle (x, y, width, height)
BoundingBox(A, B) ==
    [x |-> IF A.x < B.x THEN A.x ELSE B.x,
     y |-> IF A.y < B.y THEN A.y ELSE B.y,
     w |-> IF A.x < B.x THEN B.x - A.x ELSE A.x - B.x,
     h |-> IF A.y < B.y THEN B.y - A.y ELSE A.y - B.y]

\* floor(lx) + ox, floor(ly) + oy for a raw pointer position on its surface
GlobalOf(raw) ==
    LET origin == InitLayer[raw.surface].region
        lx == raw.position[1]
        ly == raw.position[2]
    IN [x |-> (lx[1] \div lx[2]) + origin.x, y |-> (ly[1] \div ly[2]) + origin.y]

GlobalPoints == { GlobalOf(raw) : raw \in RawPoints }

C2_ToRegionIsBoundingBox ==
    selection.data # None =>
        to_region(selection) = Some(BoundingBox(selection.data[1][1], selection.data[1][2]))

\* C3: a drag completed by a release whose Selection is still what the release left
\* makes wait_for_selection return a rectangle, also one of zero width or height:
\* the drag from (1900,500) to (2000,500) returns (1900,500,100,0).
C3_CompletedDragReturnsRectangle ==
    (pc = "done" /\ g_drag_done /\ g_end # None /\ selection.data = g_end[1].data) =>
        /\ result # None
        /\ selection.data = Some(<<Pos(1900, 500), Pos(2000, 500)>>) =>
               result = Some([x |-> 1900, y |-> 500, w |-> 100, h |-> 0])

\* C4: pos_current is floor(local) + region origin of the event handled last (the
\* default position before the first event), local (10,10) on the surface at
\* (1920,0) is recorded as (1930,10), and pos_pressed, the anchor and the cursor
\* hold only such converted positions.
C4_StoredPositionsAreGlobal ==
    /\ pos_current = IF g_last_ev = None THEN DefaultPos ELSE GlobalOf(g_last_ev[1])
    /\ g_last_ev = Some([surface |-> 2, position |-> << <<10, 1>>, <<10, 1>> >>]) =>
           pos_current = [x |-> 1930, y |-> 10]
    /\ pos_pressed # None => pos_pressed[1] \in GlobalPoints
    /\ selection.data # None =>
           selection.data[1][1] \in GlobalPoints /\ selection.data[1][2] \in GlobalPoints

C4_Witness ==
    /\ g_last_ev = Some([surface |-> 2, position |-> << <<10, 1>>, <<10, 1>> >>])
    /\ pos_pressed = Some(Pos(1900, 500))
    /\ selection.data = Some(<<Pos(1900, 500), Pos(1930, 10)>>)

C6_NoCompletedDragYieldsNoSelection ==
    (pc = "done" /\ ~g_drag_done) => result = None

\* C7: once Selection::end has been called by a release, the Selection's anchor and
\* cursor stay what that call left.
C7_SelectionFrozenAfterEnd ==
    g_end # None => selection.data = g_end[1].data

\* C8: for an active Selection, update(p1), ..., update(pn) leaves the Selection as
\* the single call update(pn) does: same anchor, cursor and resolved rectangle.
C8_UpdateKeepsLast ==
    (h_base.on /\ h_seq # <<>>) =>
        /\ h_sel = update(h_base, h_seq[Len(h_seq)])
        /\ h_sel.data[1][1] = h_base.data[1][1]
        /\ h_sel.data[1][2] = h_seq[Len(h_seq)]
        /\ to_region(h_sel) = to_region(update(h_base, h_seq[Len(h_seq)]))

C8_Witness ==
    /\ h_base.on
    /\ Len(h_seq) >= 2
    /\ h_seq[1] # h_seq[Len(h_seq)]
    /\ h_sel # h_base

\* C9: when a frame callback of a surface comes less than the interval (16 ms) after
\* the begin of that surface's previous frame-callback draw, its draw begins an
\* interval or more after the begin of that previous draw.
C9_FramePacing ==
    g_pace # None => g_pace[1] >= Interval * TicksPerMs

C9_Witness == g_pace # None /\ g_pace[1] >= Interval * TicksPerMs /\ since_last_draw > 0

\* C10: once exit is true no dispatch call is started, and the function returns: the
\* running dispatch call ends and the loop breaks.
C10_ExitReturns ==
    /\ [](exit => pc # "loop")
    /\ [](exit => <>(pc = "done"))

C10_Witness == pc = "done" /\ exit /\ g_esc = "busy" /\ ~g_drag_done

\* a step that handles the pointer event ev, as the first or as a later event of a
\* pointer_frame call
handles(ev) ==
    \/ \E n \in 1..MaxFrame : pointer_frame(ev, n)
    \/ pointer_frame_next(ev)

\* C11: handling a pointer event whose surface is not in the layer list is a panic, and
\* the step leaves pos_current, pos_pressed, the Selection and exit as they were.
C11_ForeignSurfacePanics ==
    [][\A ev \in ForeignEvents :
          handles(ev) =>
              /\ pc' = "panic"
              /\ UNCHANGED <<pos_current, pos_pressed, selection, exit>>]_vars

C11_Witness ==
    /\ pc = "panic"
    /\ failure = "panic: unwrap of the surface's region"
    /\ selection.on
    /\ pos_pressed # None
    /\ pos_current # pos_pressed[1]

\* C12: when the init loop aborts on an output that advertises no logical position or
\* no logical size, no overlay surface has been created and committed for any output:
\* the layer list is empty at the abort.
C12_NoSurfaceAtGeometryAbort ==
    (pc = "panic" /\ failure = "panic: unwrap of the output's geometry") => layer = <<>>

\* C13: the value wait_for_selection returns is the NoSelection error exactly when the
\* loop was left through exit with a Selection that resolves to no rectangle; a setup
\* failure and a dispatch error return another error, and a missing geometry, a failed
\* buffer creation and an unknown surface return no value at all (panic).
C13_NoSelectionIsDistinct ==
    /\ pc = "done" =>
           /\ failure = NoSelection <=> (exit /\ result = None)
           /\ ~exit => (failure \in SetupErrors /\ failure # NoSelection /\ result = None)
           /\ result # None => failure = ""
    /\ pc = "panic" => (failure # NoSelection /\ failure # "" /\ result = None)

C13_Witness ==
    /\ pc = "done"
    /\ failure = "DispatchError"
    /\ selection.on
    /\ to_region(selection) = None

\* C14: at most one capture request is sent, only after the loop was left through exit
\* and wait_for_selection returned a rectangle, and it carries that rectangle's x, y,
\* width and height; after the NoSelection error, another error or a panic none is sent.
C14_CaptureOnceWithRectangle ==
    /\ Len(capture) <= 1
    /\ capture # <<>> =>
           /\ pc = "captured"
           /\ exit
           /\ failure = ""
           /\ result # None
           /\ result = to_region(selection)
           /\ capture[1] = [x |-> result[1].x, y |-> result[1].y,
                            w |-> result[1].w, h |-> result[1].h]
    /\ (failure # "" \/ pc = "panic" \/ result = None) => capture = <<>>

C14_Witness ==
    /\ pc = "captured"
    /\ capture = << [x |-> 1900, y |-> 10, w |-> 30, h |-> 490] >>

\* C15: when the left button was pressed once at P, the pointer moved, and the button
\* was released at Q # P, the Selection is committed with anchor P and cursor Q, and
\* the rectangle returned is the bounding box of P and Q.
C15_DragCommitsPressToRelease ==
    g_click = "dragged" =>
        /\ ~selection.on
        /\ selection.data = Some(<<g_press_pos[1], pos_current>>)
        /\ pc = "done" => result = Some(BoundingBox(g_press_pos[1], pos_current))

\* C16: a left-button release, in whatever state it is handled, leaves pos_pressed None
\* and exit true and the Selection as end(release position) leaves it: inactive, with
\* the release position as cursor if it was active, untouched if it was not.
C16_LeftReleaseEnds ==
    [][\A ev \in PointerEvents :
          (ev.kind = "Release" /\ ev.button = BTN_LEFT /\ handles(ev)) =>
              LET pos == GlobalOf(ev)
                  active == selection.on \/ (pos_pressed # None /\ pos_pressed[1] # pos)
              IN /\ pos_pressed' = None
                 /\ exit'
                 /\ ~selection'.on
                 /\ IF active
                    THEN selection'.data # None /\ selection'.data[1][2] = pos
                    ELSE selection'.data = selection.data]_vars

C16_Witness ==
    /\ g_end # None
    /\ ~g_pressed
    /\ exit
    /\ pos_pressed = None
    /\ selection = DefaultSelection
    /\ pc = "done"

\* C17: a press or release of a button other than the left one leaves pos_pressed, the
\* Selection and exit unchanged.
C17_OtherButtonsIgnored ==
    [][\A ev \in PointerEvents :
          (ev.kind \in ButtonKinds /\ ev.button # BTN_LEFT /\ handles(ev)) =>
              UNCHANGED <<pos_pressed, selection, exit>>]_vars

\* C18: a motion event handled while dragging (one left press, the pointer moved since,
\* the Selection active) leaves the Selection (anchor and cursor), pos_pressed and exit
\* unchanged.
C18_MotionWhileDraggingKeepsSelection ==
    [][\A ev \in PointerEvents :
          (ev.kind = "Motion" /\ selection.on /\ g_click = "held" /\ handles(ev)) =>
              UNCHANGED <<selection, pos_pressed, exit>>]_vars

\* what a draw cuts out for a bounding box: the box, nothing for an empty one
Rendered(box) == IF box.w > 0 /\ box.h > 0 THEN Some(box) ELSE None

\* C19: a frame callback handled while the Selection is active applies pos_current to
\* the cursor before it draws: what it paints is the bounding box of the anchor and the
\* position of the pointer event handled last.
C19_FrameDrawsLatestPosition ==
    [][\A s \in Surfaces :
          (frame_painted(s) /\ selection.on) =>
              /\ selection'.data[1][2] = GlobalOf(g_last_ev[1])
              /\ g_painted' = Some(Rendered(BoundingBox(selection.data[1][1],
                                                         GlobalOf(g_last_ev[1]))))]_vars

C19_Witness ==
    /\ g_painted = Some(Some([x |-> 1900, y |-> 10, w |-> 30, h |-> 490]))
    /\ selection = [data |-> Some(<<Pos(1900, 500), Pos(1930, 10)>>), on |-> TRUE]
    /\ since_last_draw = 0

\* C20: while the Selection is active and the session neither committed nor cancelled
\* (exit unset), no step changes the Selection's anchor.
C20_AnchorFixedWhileDragging ==
    [][(selection.on /\ ~exit /\ ~exit') =>
          (selection'.data # None /\ selection'.data[1][1] = selection.data[1][1])]_vars

\* C21: begin(p) leaves anchor = cursor = p and on = TRUE whatever the Selection held;
\* update(p) on an active Selection sets the cursor to p and leaves anchor and on as
\* they were; update(p) on a Selection that is not active leaves it as it was.
C21_BeginAndUpdate ==
    h_call # None =>
        LET c == h_call[1]
        IN /\ c.method = "begin" =>
                  h_sel = [data |-> Some(<<c.pos, c.pos>>), on |-> TRUE]
           /\ (c.method = "update" /\ c.met.on) =>
                  /\ h_sel.data # None
                  /\ h_sel.data[1][2] = c.pos
                  /\ h_sel.data[1][1] = c.met.data[1][1]
                  /\ h_sel.on
           /\ (c.method = "update" /\ ~c.met.on) => h_sel = c.met

C21_Witness ==
    /\ h_call # None
    /\ Len(h_seq) = 2
    /\ h_base.data # None
    /\ h_base.data[1][1] # h_seq[1]
    /\ h_call[1].method = "update"
    /\ h_call[1].met = [data |-> Some(<<h_seq[1], h_seq[1]>>), on |-> TRUE]
    /\ h_sel.data[1][2] # h_sel.data[1][1]

\* C22 as stated: end(p) leaves cursor = p and on = FALSE whatever the Selection was,
\* a Selection that is not active included.
C22_EndAlwaysSetsCursor ==
    (h_call # None /\ h_call[1].method = "end") =>
        /\ h_sel.data # None
        /\ h_sel.data[1][2] = h_call[1].pos
        /\ ~h_sel.on

\* C22 amended: end(p) on an active Selection leaves cursor = p, on = FALSE and the
\* anchor as it was; end(p) on a Selection that is not active leaves it as it was.
C22_EndWhenActive ==
    (h_call # None /\ h_call[1].method = "end") =>
        LET c == h_call[1]
        IN IF c.met.on
           THEN /\ h_sel.data # None
                /\ h_sel.data[1][2] = c.pos
                /\ h_sel.data[1][1] = c.met.data[1][1]
                /\ ~h_sel.on
           ELSE h_sel = c.met

C22_Witness ==
    /\ h_call # None
    /\ h_call[1].method = "end"
    /\ ~h_call[1].met.on
    /\ h_call[1].met.data # None
    /\ h_sel.data[1][2] # h_call[1].pos

\* the fields of LayerState and what wait_for_selection holds besides the event queue
stateVars == <<layer, exit, pos_pressed, pos_current, selection, since_last_draw,
               frame_cb, pc, frame_left, result>>

\* C23: a press of Escape sets exit and leaves the Selection, pos_pressed, pos_current
\* and every other field as they were; a press of another key and a release of any key
\* leave every field as it was.
C23_KeysChangeOnlyExit ==
    [][\A k \in Keysyms :
          /\ press_key(k) =>
                /\ exit' = IF k = "Escape" THEN TRUE ELSE exit
                /\ UNCHANGED <<layer, pos_pressed, pos_current, selection,
                               since_last_draw, frame_cb, pc, frame_left, result>>
          /\ release_key(k) => UNCHANGED stateVars]_vars

C23_Witness ==
    /\ g_click = "held"
    /\ g_esc = "busy"
    /\ exit
    /\ selection.on
    /\ pos_pressed # None
    /\ selection.data[1][2] # selection.data[1][1]

\* the pixels <<x, y>> of a rectangle given by origin and size
InBox(box) == (box.x..(box.x + box.w - 1)) \X (box.y..(box.y + box.h - 1))

\* C24: after a draw of a surface with region origin (ox, oy), every pixel of the
\* canvas is either cleared or of the overlay colour; when the Selection has an anchor
\* and a cursor whose bounding box has nonzero width and height, the cleared pixels are
\* the pixels (x - ox, y - oy) for (x, y) in both the bounding box and the region; else
\* no pixel is cleared.
C24_DrawCutsOutSelection ==
    h_canvas # None =>
        LET ctx == h_ctx[1]
            canvas == h_canvas[1]
            cleared == { p \in DOMAIN canvas : canvas[p] = Clear }
        IN /\ DOMAIN canvas = InBox([x |-> 0, y |-> 0, w |-> ctx.region.w, h |-> ctx.region.h])
           /\ \A p \in DOMAIN canvas : canvas[p] \in {Clear, Gray}
           /\ IF h_base.data = None
              THEN cleared = {}
              ELSE LET box == BoundingBox(h_base.data[1][1], h_base.data[1][2])
                   IN IF box.w = 0 \/ box.h = 0
                      THEN cleared = {}
                      ELSE cleared = { <<g[1] - ctx.region.x, g[2] - ctx.region.y>> :
                                          g \in InBox(box) \cap InBox(ctx.region) }

\* a rectangle that begins on the left output and ends on the right one, drawn on
\* the right one: part of it is cleared there
C24_Witness ==
    /\ h_canvas # None
    /\ h_ctx[1].region.x > 0
    /\ h_base.data # None
    /\ h_base.data[1][1].x < h_ctx[1].region.x
    /\ h_base.data[1][2].x > h_ctx[1].region.x
    /\ \E p \in DOMAIN h_canvas[1] : h_canvas[1][p] = Clear
    /\ \E p \in DOMAIN h_canvas[1] : h_canvas[1][p] = Gray

\* the place of the one request of that name in a sequence of requests, 0 if not one
PlaceOf(reqs, name) ==
    LET at == { i \in 1..Len(reqs) : reqs[i].req = name }
    IN IF Cardinality(at) = 1 THEN CHOOSE i \in at : TRUE ELSE 0

\* a frame callback or a configure event of the surface is handled and draw returns
draws(s) == frame(s) \/ configure(s)

\* C25: a draw of a known surface makes five requests: the upload, then the damage of
\* the whole surface, then the attach, then one frame request, then the commit; a
\* frame callback of the surface is outstanding after it, and a surface with a frame
\* callback outstanding has one after every step as long as the run does not abort.
C25_DrawRequestsInOrder ==
    /\ [][\A s \in Surfaces :
             (draws(s) /\ find_layer(layer, s) # None) =>
                 /\ g_wire' # None
                 /\ Len(g_wire'[1]) = 5
                 /\ PlaceOf(g_wire'[1], "copy_from_slice") = 1
                 /\ PlaceOf(g_wire'[1], "damage_buffer") = 2
                 /\ g_wire'[1][2].arg =
                        Some([x |-> 0, y |-> 0, w |-> find_layer(layer, s)[1].region.w,
                              h |-> find_layer(layer, s)[1].region.h])
                 /\ PlaceOf(g_wire'[1], "attach_to") = 3
                 /\ PlaceOf(g_wire'[1], "frame") = 4
                 /\ PlaceOf(g_wire'[1], "commit") = 5
                 /\ frame_cb'[s] >= 1]_vars
    /\ [][\A s \in Surfaces :
             (frame_cb[s] >= 1 /\ pc' # "panic") => frame_cb'[s] >= 1]_vars

\* both surfaces were drawn and each has its frame callback outstanding
C25_Witness ==
    /\ g_wire # None
    /\ Len(layer) = 2
    /\ frame_cb[1] >= 1
    /\ frame_cb[2] >= 1
    /\ since_last_draw = 0
    /\ pos_current # DefaultPos
    /\ pc = "dispatch"

\* C26: the sleep of a frame callback of a surface is the one computed from the time
\* since that surface's own previous draw: the clocks of the other surfaces advance in
\* the handler by a sleep that the surface's own elapsed time asks for, whatever was
\* drawn on other surfaces in between.
C26_PacingPerSurface ==
    [][\A s \in Surfaces :
          (frame_clocked(s) /\ g_own[s] # None) =>
              \E slept \in Slept(g_own[s][1]) :
                  g_own' = [t \in Surfaces |->
                               IF t = s THEN Some(0) ELSE Later(g_own[t], slept)]]_vars

\* C27: when the init loop is left for the dispatch loop, the layer list has one entry
\* per enumerated output, in their order, each with its own surface, the region of the
\* output's logical position and size and a pixmap of that width and height; from then
\* on no step changes the layer list.
C27_LayerFixedAfterInit ==
    /\ [][init_roundtrip =>
             /\ Len(layer') = Len(outputs)
             /\ \A i \in 1..Len(outputs) :
                    /\ layer'[i].region =
                          [x |-> outputs[i].logical_position[1][1],
                           y |-> outputs[i].logical_position[1][2],
                           w |-> outputs[i].logical_size[1][1],
                           h |-> outputs[i].logical_size[1][2]]
                    /\ layer'[i].pixmap =
                          [w |-> outputs[i].logical_size[1][1],
                           h |-> outputs[i].logical_size[1][2]]
                    /\ \A j \in 1..Len(outputs) :
                          layer'[i].surface = layer'[j].surface => i = j]_vars
    /\ [][pc \notin {"setup", "init"} => layer' = layer]_vars

\* a third output has come during a drag and the list still holds the two surfaces
C27_Witness ==
    /\ Len(outputs) = 3
    /\ outputs[2] = OutputBResized
    /\ Len(layer) = 2
    /\ selection.on
    /\ frame_cb[2] >= 1

\* C28: an active Selection has its data; the anchor is only ever written with the
\* recorded press position (so update and end never make the pair out of the default
\* position), and a press position is only ever recorded by a Press event, as the
\* global position of that event.
C28_ActiveSelectionHasData ==
    /\ [](selection.on => selection.data # None)
    /\ [][(/\ selection'.data # None
           /\ \/ selection.data = None
              \/ selection'.data[1][1] # selection.data[1][1]) =>
              /\ pos_pressed # None
              /\ selection'.data[1][1] = pos_pressed[1]]_vars
    /\ [][(pos_pressed' # None /\ pos_pressed' # pos_pressed) =>
              /\ g_pressed'
              /\ g_last_ev' # None
              /\ pos_pressed'[1] = GlobalOf(g_last_ev'[1])]_vars

C28_Witness ==
    /\ selection.on
    /\ ~exit
    /\ pos_pressed = Some(Pos(2000, 500))
    /\ selection.data = Some(<<Pos(2000, 500), Pos(1930, 10)>>)

\* C29: exit is FALSE at the start, no step sets it back to FALSE, and a step that sets
\* it is the handling of an Escape key press or of a release of the left button.
C29_ExitMonotonic ==
    /\ ~exit
    /\ [][exit => exit']_vars
    /\ [][(~exit /\ exit') =>
              \/ press_key("Escape")
              \/ \E ev \in PointerEvents :
                    ev.kind = "Release" /\ ev.button = BTN_LEFT /\ handles(ev)]_vars

\* C30: a rectangle returned by wait_for_selection has a width and a height of one or
\* more, and so has every capture request main sends.
C30_ReturnedRectangleHasArea ==
    /\ result # None => (result[1].w >= 1 /\ result[1].h >= 1)
    /\ \A i \in 1..Len(capture) : capture[i].w >= 1 /\ capture[i].h >= 1

C30_Witness ==
    /\ pc = "captured"
    /\ result = Some([x |-> 1930, y |-> 10, w |-> 70, h |-> 490])
    /\ capture = << [x |-> 1930, y |-> 10, w |-> 70, h |-> 490] >>

\* C31: no surface has more than one frame callback outstanding, whatever the order of
\* configure events and frame callbacks, a surface configured more than once included.
C31_OneFrameCallbackPending ==
    \A s \in Surfaces : frame_cb[s] <= 1

\* C32: when a session in which Escape was not pressed has ended after a release of
\* the left button, wait_for_selection returns what the run with the same pointer and
\* key events and no frame callback and no configure event returns.
C32_ResultFromPointerEventsAlone ==
    (pc = "done" /\ g_end # None /\ g_esc = "no") => result = to_region(g_shadow)

====
